---- MODULE Spec2Model ----
(***************************************************************************)
(* movie_alert (src/src/main.rs): one run of the tool asks the movie       *)
(* database for the genre table and for every page of upcoming movies,     *)
(* keeps the animation movies, opens a browser for the ones whose id is    *)
(* not in ~/.movie_alert, and writes the grown id set back.                *)
(*                                                                         *)
(* The remote API, the environment, the file system and the browser        *)
(* command are the environment: every answer they can give is a            *)
(* nondeterministic input of the action that asks.                         *)
(***************************************************************************)
EXTENDS Integers, Sequences, FiniteSets, TLC

\* ------------------------------------------------------------------ bounds

\* Largest total_pages the API reports, besides u32::MAX.
MaxPages == 2

\* Number of runs of one instance, one after the other.
MaxRuns == 2

\* Longest list of movies handed to the filter on its own.
MaxMovies == 3

\* The largest value of the unsigned type of total_pages, page and the
\* movie ids. The program's type is u32; TLC's integers end at 2^31 - 1, so
\* the type is modelled 30 bits wide: everything that depends on the width
\* (the range of a valid id, total_pages + 1 wrapping to 0) is kept.
MaxU32 == 1073741823

\* ------------------------------------------------------- program constants

\* Exit status of a Rust process that ends by a panic (unwrap on Err,
\* arithmetic overflow in a debug build).
PanicStatus == 101

\* The tokens serde_json writes for a sequence of numbers; a number is its
\* own token.
LBracket == -1
RBracket == -2
Comma == -3
\* A byte of a hole, left when a write lands beyond the end of the file.
Nul == -4

\* ------------------------------------------------------------ input sets

Inst == {1, 2}

\* GenreReponse.genres: sequences of Genre { id, name }
GenreLists == { << >>,
                << [id |-> 1, name |-> "Action"] >>,
                << [id |-> 1, name |-> "Action"], [id |-> 2, name |-> "Animation"] >>,
                << [id |-> 2, name |-> "Animation"], [id |-> 3, name |-> "Animation"] >> }

\* Movie { genre_ids, id }; the other fields are only printed.
M100 == [id |-> 100, genre_ids |-> <<1, 2>>]
M101 == [id |-> 101, genre_ids |-> <<1>>]
M102 == [id |-> 102, genre_ids |-> <<3, 2>>]

\* Two more movies: one that names a genre twice, one that names none.
M103 == [id |-> 103, genre_ids |-> <<2, 2>>]
M104 == [id |-> 104, genre_ids |-> << >>]

\* UpComingMovieResponse.results
PageResults == { << >>, <<M100, M101>>, <<M102>> }

\* Dates { maximum, minimum }
DateRanges == { [minimum |-> "2017-05-01", maximum |-> "2017-05-20"],
                [minimum |-> "2017-05-08", maximum |-> "2017-05-27"] }

\* UpComingMovieResponse.total_pages
TotalPagesValues == (0..MaxPages) \cup {MaxU32}

\* What a request for a page can come back with: a decoded response, a
\* transport failure or a body that does not decode.
PageResponses ==
    [ok : {TRUE}, err : {"none"}, results : PageResults, dates : DateRanges,
     total_pages : TotalPagesValues]
    \cup
    [ok : {FALSE}, err : {"transport", "decode"}, results : {<< >>},
     dates : {[minimum |-> "", maximum |-> ""]}, total_pages : {0}]

\* No response held.
NoResponse == [ok |-> FALSE, err |-> "none", results |-> << >>,
               dates |-> [minimum |-> "", maximum |-> ""], total_pages |-> 0]

\* ~/.movie_alert before the first run.
NoFile == [exists |-> FALSE, content |-> << >>]
InitialFiles ==
    { NoFile,
      [exists |-> TRUE, content |-> << >>],
      [exists |-> TRUE, content |-> <<LBracket, RBracket>>],
      [exists |-> TRUE, content |-> <<LBracket, 100, RBracket>>],
      [exists |-> TRUE, content |-> <<LBracket, 102, Comma, 100, RBracket>>],
      [exists |-> TRUE, content |-> <<LBracket, 100, Comma>>] }

\* ------------------------------------------------------------- operators

Ids(ms) == { ms[k].id : k \in DOMAIN ms }

\* The insert loop over GenreReponse.genres: a later entry with the same id
\* replaces an earlier one.
GenreMap(genres) ==
    [ g \in { genres[k].id : k \in DOMAIN genres } |->
        LET last == CHOOSE k \in DOMAIN genres :
                        /\ genres[k].id = g
                        /\ \A j \in DOMAIN genres : genres[j].id = g => j <= k
        IN  genres[last].name ]

\* The ids get_genre_id_by_name can return: the map is iterated in the hash
\* order, the matching entries are kept and the last of them is taken, so
\* any matching id can be the answer; no match is GenreIdNotFoundError.
get_genre_id_by_name(genre_name, genre_map) ==
    { g \in DOMAIN genre_map : genre_map[g] = genre_name }

\* Mutant of get_upcoming_movies_by_genre_id: only the first genre id of a
\* movie is compared.
get_upcoming_movies_by_first_genre_id(genre_id, movies) ==
    SelectSeq(movies, LAMBDA movie : /\ movie.genre_ids # << >>
                                     /\ movie.genre_ids[1] = genre_id)

\* get_upcoming_movies_by_genre_id: the movies whose genre_ids holds genre_id.
get_upcoming_movies_by_genre_id(genre_id, movies) ==
    SelectSeq(movies, LAMBDA movie : \E k \in DOMAIN movie.genre_ids :
                                          movie.genre_ids[k] = genre_id)

\* total_pages + 1 in u32, as a release build computes it.
wrapping_add1(n) == (n + 1) % (MaxU32 + 1)

\* serde_json::from_reader::<_, HashSet<u32>>: '[' then numbers that fit u32
\* separated by ',' then ']' and the end of the input. Anything else,
\* the empty input included, is an error.
RECURSIVE parse_elements(_, _, _)
parse_elements(content, k, acc) ==
    IF k + 1 > Len(content) THEN [ok |-> FALSE, set |-> {}]
    ELSE IF ~(content[k] >= 0 /\ content[k] <= MaxU32) THEN [ok |-> FALSE, set |-> {}]
    ELSE IF content[k + 1] = Comma
         THEN parse_elements(content, k + 2, acc \cup {content[k]})
    ELSE IF content[k + 1] = RBracket /\ k + 1 = Len(content)
         THEN [ok |-> TRUE, set |-> acc \cup {content[k]}]
    ELSE [ok |-> FALSE, set |-> {}]

\* Mutant of from_reader: content that does not decode gives the empty set
\* (unwrap_or_default in place of map_err).
from_reader_lenient(content) ==
    IF Len(content) < 2 \/ content[1] # LBracket THEN [ok |-> TRUE, set |-> {}]
    ELSE IF content[2] = RBracket
         THEN [ok |-> TRUE, set |-> {}]
    ELSE IF parse_elements(content, 2, {}).ok THEN parse_elements(content, 2, {})
    ELSE [ok |-> TRUE, set |-> {}]

from_reader(content) ==
    IF Len(content) < 2 \/ content[1] # LBracket THEN [ok |-> FALSE, set |-> {}]
    ELSE IF content[2] = RBracket
         THEN [ok |-> (Len(content) = 2), set |-> {}]
    ELSE parse_elements(content, 2, {})

\* The token sequence of one order of the elements.
RECURSIVE encode_elements(_, _)
encode_elements(order, k) ==
    IF k > Len(order) THEN <<RBracket>>
    ELSE (IF k = 1 THEN <<order[k]>> ELSE <<Comma, order[k]>>)
         \o encode_elements(order, k + 1)

\* serde_json::to_writer of a HashSet<u32>: the elements come in the set's
\* hash order, which the program does not control: every order can be the
\* one written.
to_writer(opened_set) ==
    LET n == Cardinality(opened_set)
        orders == { o \in [1..n -> opened_set] :
                        \A a, b \in 1..n : a # b => o[a] # o[b] }
    IN  { <<LBracket>> \o encode_elements(o, 1) : o \in orders }

\* The separator get_genre_name_from_ids pushes between names.
Separator == ", "

\* The fold of get_genre_name_from_ids from id k on. The string is the
\* sequence of the pieces pushed to it. is_first is true for the first id
\* only: the closure returns (result, false) whether or not the id had a
\* name.
RECURSIVE genre_name_fold(_, _, _, _, _)
genre_name_fold(ids, k, genre_map, result, is_first) ==
    IF k > Len(ids) THEN result
    ELSE IF ids[k] \in DOMAIN genre_map
         THEN genre_name_fold(ids, k + 1, genre_map,
                  (IF ~is_first THEN Append(result, Separator) ELSE result)
                      \o << genre_map[ids[k]] >>,
                  FALSE)
    ELSE genre_name_fold(ids, k + 1, genre_map, result, FALSE)

get_genre_name_from_ids(ids, genre_map) ==
    genre_name_fold(ids, 1, genre_map, << >>, TRUE)

\* No AppError.
NoError == [kind |-> "none", text |-> "", args |-> << >>]

\* The Err of retrieve_upcoming_movies_by_page for a response that is not
\* Ok: AppError::RestClientError(msg, cause), where msg is a text followed
\* by the numbers appended to it. map_err of line 359 appends the page to
\* its text; map_err of line 368 has a text only.
retrieve_upcoming_movies_by_page_error(page, resp) ==
    IF resp.ok THEN NoError
    ELSE IF resp.err = "transport"
         THEN [kind |-> "RestClientError",
               text |-> "Error: cannot get upcoming movies for page ",
               args |-> << page >>]
    ELSE [kind |-> "RestClientError",
          text |-> "Error: cannot parse upcoming movie response to json",
          args |-> << >>]

\* A write of one token at an offset of the file: the file grows when the
\* offset is at or beyond its end, a gap is filled with NUL bytes.
write_at(content, offset, token) ==
    LET n == IF offset + 1 > Len(content) THEN offset + 1 ELSE Len(content)
    IN  [ k \in 1..n |-> IF k = offset + 1 THEN token
                         ELSE IF k <= Len(content) THEN content[k]
                         ELSE Nul ]

\* Mutant of found_movies_loop: the id is inserted only when the spawn of
\* the browser command succeeded.
RECURSIVE found_movies_loop_insert_on_success(_, _, _, _, _)
found_movies_loop_insert_on_success(movies, k, set, log, spawn_fails) ==
    IF k > Len(movies) THEN [set |-> set, log |-> log]
    ELSE IF movies[k].id \in set
         THEN found_movies_loop_insert_on_success(movies, k + 1, set,
                  Append(log, [id |-> movies[k].id, did |-> "was_opened"]),
                  spawn_fails)
    ELSE IF movies[k].id \in spawn_fails
         THEN found_movies_loop_insert_on_success(movies, k + 1, set,
                  Append(log, [id |-> movies[k].id, did |-> "spawn_failed"]),
                  spawn_fails)
    ELSE found_movies_loop_insert_on_success(movies, k + 1, set \cup {movies[k].id},
             Append(log, [id |-> movies[k].id, did |-> "spawned"]),
             spawn_fails)

\* Mutant of found_movies_loop: the set is replaced by the new id in place
\* of the id being inserted into it.
RECURSIVE found_movies_loop_replace(_, _, _, _, _)
found_movies_loop_replace(movies, k, set, log, spawn_fails) ==
    IF k > Len(movies) THEN [set |-> set, log |-> log]
    ELSE IF movies[k].id \in set
         THEN found_movies_loop_replace(movies, k + 1, set,
                  Append(log, [id |-> movies[k].id, did |-> "was_opened"]),
                  spawn_fails)
    ELSE found_movies_loop_replace(movies, k + 1, {movies[k].id},
             Append(log, [id |-> movies[k].id,
                          did |-> IF movies[k].id \in spawn_fails
                                  THEN "spawn_failed" ELSE "spawned"]),
             spawn_fails)

\* Mutant of found_movies_loop: the insert of line 252 is missing.
RECURSIVE found_movies_loop_no_insert(_, _, _, _, _)
found_movies_loop_no_insert(movies, k, set, log, spawn_fails) ==
    IF k > Len(movies) THEN [set |-> set, log |-> log]
    ELSE IF movies[k].id \in set
         THEN found_movies_loop_no_insert(movies, k + 1, set,
                  Append(log, [id |-> movies[k].id, did |-> "was_opened"]),
                  spawn_fails)
    ELSE found_movies_loop_no_insert(movies, k + 1, set,
             Append(log, [id |-> movies[k].id,
                          did |-> IF movies[k].id \in spawn_fails
                                  THEN "spawn_failed" ELSE "spawned"]),
             spawn_fails)

\* The loop of process_found_movies from movie k on: the set it leaves and
\* what it did for each movie ("URL was opened", or a spawn of the browser
\* command, which succeeds unless the id is in spawn_fails; the outcome of
\* the spawn is dropped).
RECURSIVE found_movies_loop(_, _, _, _, _)
found_movies_loop(movies, k, set, log, spawn_fails) ==
    IF k > Len(movies) THEN [set |-> set, log |-> log]
    ELSE IF movies[k].id \in set
         THEN found_movies_loop(movies, k + 1, set,
                  Append(log, [id |-> movies[k].id, did |-> "was_opened"]),
                  spawn_fails)
    ELSE found_movies_loop(movies, k + 1, set \cup {movies[k].id},
             Append(log, [id |-> movies[k].id,
                          did |-> IF movies[k].id \in spawn_fails
                                  THEN "spawn_failed" ELSE "spawned"]),
             spawn_fails)

\* ----------------------------------------------------------------- state

VARIABLES
    file,               \* ~/.movie_alert: whether it exists, and its tokens
    pc,                 \* where each instance is in main/process
    run,                \* the number of the instance's current run
    genre_id_to_name,   \* process: the genre map
    genre_animation_id, \* process: the id found for "Animation"
    first_page_response,\* retrieve_all_upcoming_movies: the response to page 1
    total_pages,        \* retrieve_all_upcoming_movies: total_pages of page 1
    upper,              \* retrieve_all_upcoming_movies: end of the range 2..(total_pages + 1)
    p,                  \* retrieve_all_upcoming_movies: the loop's page
    movies,             \* retrieve_all_upcoming_movies: the movies appended so far
    min_date,           \* dates.minimum of page 1
    max_date,           \* dates.maximum of page 1
    animation_movies,   \* process: the filtered movies
    opened_movie_set,   \* process: the in-memory seen-set
    out,                \* save_opened_movie_set: the tokens still to write
    pos,                \* save_opened_movie_set: the offset of the open file
    result,             \* what process() returned to main
    exit_code,          \* the status the process ended with, -1 while it runs
    reported,           \* the AppError main rendered with report_error
    events,             \* history: what the run did, in order
    served,             \* history: the page requests of the fetch and what each returned
    later_larger,       \* history: a page after page 1 reported a larger total_pages
    launched,           \* history: what process_found_movies did for each movie
    printed,            \* history: the "Genres:" line process_found_movies printed for each movie
    loaded,             \* history: the set load_opened_movie_set returned
    saved,              \* history: the set handed to save_opened_movie_set
    file_at_start,      \* history: the file when the run started
    prev                \* history: the instance's previous run

vars == << file, pc, run, genre_id_to_name, genre_animation_id, total_pages,
           upper, p, movies, later_larger,
           min_date, max_date, animation_movies, opened_movie_set, out, pos,
           result, exit_code, reported, events, served, launched, printed, loaded, saved,
           first_page_response,
           file_at_start, prev >>

genreVars == << genre_id_to_name, genre_animation_id >>
fetchVars == << first_page_response, total_pages, upper, p, movies, min_date, max_date, later_larger >>
seenVars == << animation_movies, opened_movie_set, launched, printed, loaded >>
saveVars == << out, pos, saved >>
endVars == << result, exit_code, reported >>
runVars == << run, file_at_start, prev >>

\* The stages of process(), in the order of the code.
StageOrder == << "Init", "LoadGenres", "ResolveTargetGenreId", "FetchAllPages",
                 "Filter", "LoadSeenSet", "Notify", "SaveSeenSet" >>

Ev(stage, what) == [stage |-> stage, what |-> what]

NoRun == [status |-> -1, loaded |-> {}, filtered |-> {}, spawned |-> {}, failed |-> {}]

\* A process that has not done anything yet.
InitRest ==
    /\ run = [i \in Inst |-> 1]
    /\ genre_id_to_name = [i \in Inst |-> << >>]
    /\ genre_animation_id = [i \in Inst |-> 0]
    /\ first_page_response = [i \in Inst |-> NoResponse]
    /\ total_pages = [i \in Inst |-> 0]
    /\ upper = [i \in Inst |-> 0]
    /\ later_larger = [i \in Inst |-> FALSE]
    /\ p = [i \in Inst |-> 0]
    /\ movies = [i \in Inst |-> << >>]
    /\ min_date = [i \in Inst |-> ""]
    /\ max_date = [i \in Inst |-> ""]
    /\ animation_movies = [i \in Inst |-> << >>]
    /\ out = [i \in Inst |-> << >>]
    /\ pos = [i \in Inst |-> 0]
    /\ result = [i \in Inst |-> "none"]
    /\ exit_code = [i \in Inst |-> -1]
    /\ reported = [i \in Inst |-> "none"]
    /\ events = [i \in Inst |-> << >>]
    /\ served = [i \in Inst |-> << >>]
    /\ launched = [i \in Inst |-> << >>]
    /\ printed = [i \in Inst |-> << >>]
    /\ loaded = [i \in Inst |-> {}]
    /\ saved = [i \in Inst |-> {}]
    /\ file_at_start = [i \in Inst |-> file]
    /\ prev = [i \in Inst |-> NoRun]

Init ==
    /\ file \in InitialFiles
    /\ pc = [i \in Inst |-> "start"]
    /\ opened_movie_set = [i \in Inst |-> {}]
    /\ InitRest

\* ------------------------------------------------- how a run can end

\* process() returns r ("Ok" or the name of the AppError) to main.
Return(i, r) ==
    /\ result' = [result EXCEPT ![i] = r]
    /\ pc' = [pc EXCEPT ![i] = "main"]
    /\ UNCHANGED << exit_code, reported >>

\* A panic (unwrap on an Err, overflow in a debug build): the process ends
\* there, main's match is never reached.
Panic(i) ==
    /\ pc' = [pc EXCEPT ![i] = "exit"]
    /\ exit_code' = [exit_code EXCEPT ![i] = PanicStatus]
    /\ UNCHANGED << result, reported >>

Goto(i, where) ==
    /\ pc' = [pc EXCEPT ![i] = where]
    /\ UNCHANGED endVars

Log(i, entries) == events' = [events EXCEPT ![i] = @ \o entries]

\* --------------------------------------------------------------- actions

\* process(), lines 153-172: the reactor, the logger, the home directory
\* and the API key, in this order; the first that fails is the error.
process_start(i) ==
    /\ pc[i] = "start"
    /\ \E core_ok, logger_ok, home_ok, key_ok \in BOOLEAN :
         LET err == IF ~core_ok THEN "ReactorInitializeError"
                    ELSE IF ~logger_ok THEN "EnvLogError"
                    ELSE IF ~home_ok THEN "HomeDirectoryError"
                    ELSE IF ~key_ok THEN "APIKeyError"
                    ELSE "none"
         IN  IF err = "none"
             THEN /\ Log(i, << Ev("Init", "ok") >>)
                  /\ Goto(i, "genres")
             ELSE /\ Log(i, << Ev("Init", "failed") >>)
                  /\ Return(i, err)
    /\ UNCHANGED << file, genreVars, fetchVars, served, seenVars, saveVars, runVars >>

\* Mutant of retrieve_genre_and_convert_to_map: the request can be made
\* before the key and the home directory were looked up.
retrieve_genre_before_env(i) ==
    /\ pc[i] \in {"start", "genres"}
    /\ \/ /\ Log(i, << Ev("LoadGenres", "request"), Ev("LoadGenres", "failed") >>)
          /\ Panic(i)
          /\ UNCHANGED genre_id_to_name
       \/ \E genres \in GenreLists :
            /\ genre_id_to_name' = [genre_id_to_name EXCEPT ![i] = GenreMap(genres)]
            /\ Log(i, << Ev("LoadGenres", "request"), Ev("LoadGenres", "ok") >>)
            /\ Goto(i, "resolve")
    /\ UNCHANGED << file, genre_animation_id, fetchVars, served, seenVars, saveVars,
                    runVars >>

\* retrieve_genre_and_convert_to_map: one request; a transport failure and
\* a body that does not decode are both unwrap()ed.
retrieve_genre_and_convert_to_map(i) ==
    /\ pc[i] = "genres"
    /\ \/ /\ Log(i, << Ev("LoadGenres", "request"), Ev("LoadGenres", "failed") >>)
          /\ Panic(i)
          /\ UNCHANGED genre_id_to_name
       \/ \E genres \in GenreLists :
            /\ genre_id_to_name' = [genre_id_to_name EXCEPT ![i] = GenreMap(genres)]
            /\ Log(i, << Ev("LoadGenres", "request"), Ev("LoadGenres", "ok") >>)
            /\ Goto(i, "resolve")
    /\ UNCHANGED << file, genre_animation_id, fetchVars, served, seenVars, saveVars,
                    runVars >>

\* process(), line 177: try!(get_genre_id_by_name("Animation", ..)).
process_genre_id(i) ==
    /\ pc[i] = "resolve"
    /\ LET found == get_genre_id_by_name("Animation", genre_id_to_name[i])
       IN  IF found = {}
           THEN /\ Log(i, << Ev("ResolveTargetGenreId", "failed") >>)
                /\ Return(i, "GenreIdNotFoundError")
                /\ UNCHANGED genre_animation_id
           ELSE \E g \in found :
                  /\ genre_animation_id' = [genre_animation_id EXCEPT ![i] = g]
                  /\ Log(i, << Ev("ResolveTargetGenreId", "ok") >>)
                  /\ Goto(i, "page1")
    /\ UNCHANGED << file, genre_id_to_name, fetchVars, served, seenVars, saveVars,
                    runVars >>

\* retrieve_all_upcoming_movies, lines 326-340: page 1, its total_pages and
\* dates, and the range of the loop. The Err of a failed page is unwrap()ed
\* by process (line 180). total_pages + 1 overflows for u32::MAX: a debug
\* build panics there, a release build wraps to 0.
retrieve_first_page(i) ==
    /\ pc[i] = "page1"
    /\ \E resp \in PageResponses :
         /\ served' = [served EXCEPT ![i] =
                << [page |-> 1, ok |-> resp.ok, results |-> resp.results,
                    error |-> retrieve_upcoming_movies_by_page_error(1, resp)] >>]
         /\ IF ~resp.ok
            THEN /\ Log(i, << Ev("FetchAllPages", "request"), Ev("FetchAllPages", "failed") >>)
                 /\ Panic(i)
                 /\ UNCHANGED fetchVars
            ELSE \/ /\ resp.total_pages + 1 > MaxU32
                    /\ Log(i, << Ev("FetchAllPages", "request"), Ev("FetchAllPages", "failed") >>)
                    /\ Panic(i)
                    /\ UNCHANGED fetchVars
                 \/ /\ first_page_response' = [first_page_response EXCEPT ![i] = resp]
                    /\ total_pages' = [total_pages EXCEPT ![i] = resp.total_pages]
                    /\ UNCHANGED later_larger
                    /\ movies' = [movies EXCEPT ![i] = resp.results]
                    /\ min_date' = [min_date EXCEPT ![i] = resp.dates.minimum]
                    /\ max_date' = [max_date EXCEPT ![i] = resp.dates.maximum]
                    /\ upper' = [upper EXCEPT ![i] = wrapping_add1(resp.total_pages)]
                    /\ p' = [p EXCEPT ![i] = 2]
                    /\ Log(i, << Ev("FetchAllPages", "request") >>)
                    /\ Goto(i, "pages")
    /\ UNCHANGED << file, genreVars, seenVars, saveVars, runVars >>

\* Mutant of retrieve_next_page: the loop goes on up to the total_pages of
\* the page it has just read when that is larger.
retrieve_next_page_extended(i) ==
    /\ pc[i] = "pages"
    /\ p[i] < upper[i]
    /\ \E resp \in PageResponses :
         /\ served' = [served EXCEPT ![i] =
                Append(@, [page |-> p[i], ok |-> resp.ok, results |-> resp.results,
                           error |-> retrieve_upcoming_movies_by_page_error(p[i], resp)])]
         /\ IF ~resp.ok
            THEN /\ Log(i, << Ev("FetchAllPages", "request"), Ev("FetchAllPages", "failed") >>)
                 /\ Panic(i)
                 /\ UNCHANGED fetchVars
            ELSE /\ later_larger' = [later_larger EXCEPT ![i] =
                        @ \/ resp.total_pages > total_pages[i]]
                 /\ upper' = [upper EXCEPT ![i] =
                        IF resp.total_pages > @ THEN resp.total_pages ELSE @]
                 /\ movies' = [movies EXCEPT ![i] = @ \o resp.results]
                 /\ p' = [p EXCEPT ![i] = @ + 1]
                 /\ Log(i, << Ev("FetchAllPages", "request") >>)
                 /\ Goto(i, "pages")
                 /\ UNCHANGED << first_page_response, total_pages, min_date,
                                 max_date >>
    /\ UNCHANGED << file, genreVars, seenVars, saveVars, runVars >>

\* Mutant of retrieve_next_page: a page that fails is skipped and the loop
\* goes on.
retrieve_next_page_skip_failed(i) ==
    /\ pc[i] = "pages"
    /\ p[i] < upper[i]
    /\ \E resp \in PageResponses :
         /\ served' = [served EXCEPT ![i] =
                Append(@, [page |-> p[i], ok |-> resp.ok, results |-> resp.results,
                           error |-> retrieve_upcoming_movies_by_page_error(p[i], resp)])]
         /\ IF ~resp.ok
            THEN /\ Log(i, << Ev("FetchAllPages", "request") >>)
                 /\ p' = [p EXCEPT ![i] = @ + 1]
                 /\ Goto(i, "pages")
                 /\ UNCHANGED << first_page_response, total_pages, upper, movies,
                                 min_date, max_date, later_larger >>
            ELSE /\ later_larger' = [later_larger EXCEPT ![i] =
                        @ \/ resp.total_pages > total_pages[i]]
                 /\ movies' = [movies EXCEPT ![i] = @ \o resp.results]
                 /\ p' = [p EXCEPT ![i] = @ + 1]
                 /\ Log(i, << Ev("FetchAllPages", "request") >>)
                 /\ Goto(i, "pages")
                 /\ UNCHANGED << first_page_response, total_pages, upper, min_date,
                                 max_date >>
    /\ UNCHANGED << file, genreVars, seenVars, saveVars, runVars >>

\* retrieve_all_upcoming_movies, lines 340-343: one turn of the loop.
retrieve_next_page(i) ==
    /\ pc[i] = "pages"
    /\ p[i] < upper[i]
    /\ \E resp \in PageResponses :
         /\ served' = [served EXCEPT ![i] =
                Append(@, [page |-> p[i], ok |-> resp.ok, results |-> resp.results,
                           error |-> retrieve_upcoming_movies_by_page_error(p[i], resp)])]
         /\ IF ~resp.ok
            THEN /\ Log(i, << Ev("FetchAllPages", "request"), Ev("FetchAllPages", "failed") >>)
                 /\ Panic(i)
                 /\ UNCHANGED fetchVars
            ELSE /\ later_larger' = [later_larger EXCEPT ![i] =
                        @ \/ resp.total_pages > total_pages[i]]
                 /\ movies' = [movies EXCEPT ![i] = @ \o resp.results]
                 /\ p' = [p EXCEPT ![i] = @ + 1]
                 /\ Log(i, << Ev("FetchAllPages", "request") >>)
                 /\ Goto(i, "pages")
                 /\ UNCHANGED << first_page_response, total_pages, upper, min_date,
                                 max_date >>
    /\ UNCHANGED << file, genreVars, seenVars, saveVars, runVars >>

\* retrieve_all_upcoming_movies, line 345: the loop is over, Ok((movies,
\* min_date, max_date)) goes back to process.
retrieve_all_done(i) ==
    /\ pc[i] = "pages"
    /\ ~(p[i] < upper[i])
    /\ Log(i, << Ev("FetchAllPages", "ok") >>)
    /\ Goto(i, "filter")
    /\ UNCHANGED << file, genreVars, fetchVars, served, seenVars, saveVars, runVars >>

\* process, lines 182-194: the filter and the line that prints the count
\* and the dates. Nothing reads the fetch's values after it.
process_filter(i) ==
    /\ pc[i] = "filter"
    /\ animation_movies' = [animation_movies EXCEPT ![i] =
           get_upcoming_movies_by_genre_id(genre_animation_id[i], movies[i])]
    /\ first_page_response' = [first_page_response EXCEPT ![i] = NoResponse]
    /\ total_pages' = [total_pages EXCEPT ![i] = 0]
    /\ upper' = [upper EXCEPT ![i] = 0]
    /\ later_larger' = [later_larger EXCEPT ![i] = FALSE]
    /\ p' = [p EXCEPT ![i] = 0]
    /\ movies' = [movies EXCEPT ![i] = << >>]
    /\ min_date' = [min_date EXCEPT ![i] = ""]
    /\ max_date' = [max_date EXCEPT ![i] = ""]
    /\ served' = [served EXCEPT ![i] = << >>]
    /\ Log(i, << Ev("Filter", "ok") >>)
    /\ Goto(i, "load")
    /\ UNCHANGED << file, genreVars, opened_movie_set, launched, printed, loaded, saveVars,
                    runVars >>

\* Mutant of load_opened_movie_set: the file is opened without the test of
\* line 207, so that a missing file is an IOError.
load_without_exists_check(i) ==
    /\ pc[i] = "load"
    /\ IF file.exists
       THEN \/ /\ Log(i, << Ev("LoadSeenSet", "failed") >>)
               /\ Return(i, "IOError")
               /\ UNCHANGED << opened_movie_set, loaded >>
            \/ LET r == from_reader(file.content)
               IN  IF r.ok
                   THEN /\ opened_movie_set' = [opened_movie_set EXCEPT ![i] = r.set]
                        /\ loaded' = [loaded EXCEPT ![i] = r.set]
                        /\ Log(i, << Ev("LoadSeenSet", "read"), Ev("LoadSeenSet", "ok") >>)
                        /\ Goto(i, "notify")
                   ELSE /\ Log(i, << Ev("LoadSeenSet", "read"), Ev("LoadSeenSet", "failed") >>)
                        /\ Return(i, "SerdeJsonDeserializeError")
                        /\ UNCHANGED << opened_movie_set, loaded >>
       ELSE /\ Log(i, << Ev("LoadSeenSet", "failed") >>)
            /\ Return(i, "IOError")
            /\ UNCHANGED << opened_movie_set, loaded >>
    /\ UNCHANGED << file, genreVars, fetchVars, served, animation_movies, launched,
                    printed, saveVars, runVars >>

\* load_opened_movie_set, called at line 196 under try!.
load_opened_movie_set(i) ==
    /\ pc[i] = "load"
    /\ IF file.exists
       THEN \/ /\ Log(i, << Ev("LoadSeenSet", "failed") >>)
               /\ Return(i, "IOError")
               /\ UNCHANGED << opened_movie_set, loaded >>
            \/ LET r == from_reader(file.content)
               IN  IF r.ok
                   THEN /\ opened_movie_set' = [opened_movie_set EXCEPT ![i] = r.set]
                        /\ loaded' = [loaded EXCEPT ![i] = r.set]
                        /\ Log(i, << Ev("LoadSeenSet", "read"), Ev("LoadSeenSet", "ok") >>)
                        /\ Goto(i, "notify")
                   ELSE /\ Log(i, << Ev("LoadSeenSet", "read"), Ev("LoadSeenSet", "failed") >>)
                        /\ Return(i, "SerdeJsonDeserializeError")
                        /\ UNCHANGED << opened_movie_set, loaded >>
       ELSE /\ opened_movie_set' = [opened_movie_set EXCEPT ![i] = {}]
            /\ loaded' = [loaded EXCEPT ![i] = {}]
            /\ Log(i, << Ev("LoadSeenSet", "ok") >>)
            /\ Goto(i, "notify")
    /\ UNCHANGED << file, genreVars, fetchVars, served, animation_movies, launched,
                    printed, saveVars, runVars >>

\* process_found_movies, called at line 198: the whole loop. For each movie
\* the names of its genres are printed. Each spawn of the browser command
\* can fail; its result is dropped (let _ =).
process_found_movies(i) ==
    /\ pc[i] = "notify"
    /\ \E spawn_fails \in SUBSET (Ids(animation_movies[i]) \ opened_movie_set[i]) :
         LET r == found_movies_loop(animation_movies[i], 1, opened_movie_set[i],
                                    << >>, spawn_fails)
             spawns == SelectSeq(r.log, LAMBDA e : e.did # "was_opened")
         IN  /\ opened_movie_set' = [opened_movie_set EXCEPT ![i] = r.set]
             /\ launched' = [launched EXCEPT ![i] = r.log]
             /\ printed' = [printed EXCEPT ![i] =
                    [ k \in DOMAIN animation_movies[i] |->
                        get_genre_name_from_ids(animation_movies[i][k].genre_ids,
                                                genre_id_to_name[i]) ]]
             /\ Log(i, [k \in 1..Len(spawns) |-> Ev("Notify", "launch")]
                       \o << Ev("Notify", "ok") >>)
    /\ Goto(i, "save_create")
    /\ UNCHANGED << file, genreVars, fetchVars, served, animation_movies, loaded,
                    saveVars, runVars >>

\* Mutant of save_create: process saves before it calls
\* process_found_movies.
save_create_before_notify(i) ==
    /\ pc[i] \in {"notify", "save_create"}
    /\ \/ /\ Log(i, << Ev("SaveSeenSet", "failed") >>)
          /\ Return(i, "IOError")
          /\ saved' = [saved EXCEPT ![i] = opened_movie_set[i]]
          /\ UNCHANGED << file, out, pos >>
       \/ /\ file' = [exists |-> TRUE, content |-> << >>]
          /\ saved' = [saved EXCEPT ![i] = opened_movie_set[i]]
          /\ pos' = [pos EXCEPT ![i] = 0]
          /\ \E tokens \in to_writer(opened_movie_set[i]) :
               out' = [out EXCEPT ![i] = tokens]
          /\ Log(i, << Ev("SaveSeenSet", "create") >>)
          /\ Goto(i, "save_write")
    /\ UNCHANGED << genreVars, fetchVars, served, seenVars, runVars >>

\* Mutant of save_create: the file is opened for writing without being
\* truncated.
save_create_no_truncate(i) ==
    /\ pc[i] = "save_create"
    /\ \/ /\ Log(i, << Ev("SaveSeenSet", "failed") >>)
          /\ Return(i, "IOError")
          /\ saved' = [saved EXCEPT ![i] = opened_movie_set[i]]
          /\ UNCHANGED << file, out, pos >>
       \/ /\ file' = [exists |-> TRUE, content |-> file.content]
          /\ saved' = [saved EXCEPT ![i] = opened_movie_set[i]]
          /\ pos' = [pos EXCEPT ![i] = 0]
          /\ \E tokens \in to_writer(opened_movie_set[i]) :
               out' = [out EXCEPT ![i] = tokens]
          /\ Log(i, << Ev("SaveSeenSet", "create") >>)
          /\ Goto(i, "save_write")
    /\ UNCHANGED << genreVars, fetchVars, served, seenVars, runVars >>

\* save_opened_movie_set, line 221: File::create truncates the file, or
\* fails and leaves it alone.
save_create(i) ==
    /\ pc[i] = "save_create"
    /\ \/ /\ Log(i, << Ev("SaveSeenSet", "failed") >>)
          /\ Return(i, "IOError")
          /\ saved' = [saved EXCEPT ![i] = opened_movie_set[i]]
          /\ UNCHANGED << file, out, pos >>
       \/ /\ file' = [exists |-> TRUE, content |-> << >>]
          /\ saved' = [saved EXCEPT ![i] = opened_movie_set[i]]
          /\ pos' = [pos EXCEPT ![i] = 0]
          /\ \E tokens \in to_writer(opened_movie_set[i]) :
               out' = [out EXCEPT ![i] = tokens]
          /\ Log(i, << Ev("SaveSeenSet", "create") >>)
          /\ Goto(i, "save_write")
    /\ UNCHANGED << genreVars, fetchVars, served, seenVars, runVars >>

\* save_opened_movie_set, lines 223-224: serde_json writes the tokens one
\* by one straight to the file (there is no buffer); a write can fail.
save_write(i) ==
    /\ pc[i] = "save_write"
    /\ out[i] # << >>
    /\ \/ /\ Log(i, << Ev("SaveSeenSet", "failed") >>)
          /\ Return(i, "SerdeJsonSerializeError")
          /\ UNCHANGED << file, saveVars >>
       \/ /\ file' = [exists |-> TRUE,
                      content |-> write_at(file.content, pos[i], Head(out[i]))]
          /\ pos' = [pos EXCEPT ![i] = @ + 1]
          /\ out' = [out EXCEPT ![i] = Tail(@)]
          /\ UNCHANGED saved
          /\ Log(i, << Ev("SaveSeenSet", "write") >>)
          /\ Goto(i, "save_write")
    /\ UNCHANGED << genreVars, fetchVars, served, seenVars, runVars >>

\* save_opened_movie_set, line 228, and process, line 202: flush of a File
\* does nothing, then Ok(()).
save_flush(i) ==
    /\ pc[i] = "save_write"
    /\ out[i] = << >>
    /\ Log(i, << Ev("SaveSeenSet", "ok") >>)
    /\ Return(i, "Ok")
    /\ UNCHANGED << file, genreVars, fetchVars, served, seenVars, saveVars, runVars >>

\* main: exit(0) for Ok, report_error and exit(1) for Err.
main(i) ==
    /\ pc[i] = "main"
    /\ pc' = [pc EXCEPT ![i] = "exit"]
    /\ IF result[i] = "Ok"
       THEN /\ exit_code' = [exit_code EXCEPT ![i] = 0]
            /\ UNCHANGED reported
       ELSE /\ reported' = [reported EXCEPT ![i] = result[i]]
            /\ exit_code' = [exit_code EXCEPT ![i] = 1]
    /\ UNCHANGED << file, result, events, genreVars, fetchVars, served, seenVars,
                    saveVars, runVars >>

\* What is kept of a run for the next one: how it ended and, when it ran
\* to the end, what it loaded, filtered and launched, and the launches that
\* failed.
Summary(i) ==
    IF exit_code[i] # 0 THEN [NoRun EXCEPT !.status = exit_code[i]]
    ELSE [status |-> 0,
          loaded |-> loaded[i],
          filtered |-> Ids(animation_movies[i]),
          spawned |-> { launched[i][k].id :
                          k \in { j \in DOMAIN launched[i] :
                                    launched[i][j].did # "was_opened" } },
          failed |-> { launched[i][k].id :
                          k \in { j \in DOMAIN launched[i] :
                                    launched[i][j].did = "spawn_failed" } }]

\* The tool is started again: a new process, nothing but the file is kept.
NewRun(i) ==
    /\ pc[i] = "exit"
    /\ run[i] < MaxRuns
    /\ run' = [run EXCEPT ![i] = @ + 1]
    /\ prev' = [prev EXCEPT ![i] = Summary(i)]
    /\ file_at_start' = [file_at_start EXCEPT ![i] = file]
    /\ pc' = [pc EXCEPT ![i] = "start"]
    /\ genre_id_to_name' = [genre_id_to_name EXCEPT ![i] = << >>]
    /\ genre_animation_id' = [genre_animation_id EXCEPT ![i] = 0]
    /\ first_page_response' = [first_page_response EXCEPT ![i] = NoResponse]
    /\ total_pages' = [total_pages EXCEPT ![i] = 0]
    /\ upper' = [upper EXCEPT ![i] = 0]
    /\ later_larger' = [later_larger EXCEPT ![i] = FALSE]
    /\ p' = [p EXCEPT ![i] = 0]
    /\ movies' = [movies EXCEPT ![i] = << >>]
    /\ min_date' = [min_date EXCEPT ![i] = ""]
    /\ max_date' = [max_date EXCEPT ![i] = ""]
    /\ animation_movies' = [animation_movies EXCEPT ![i] = << >>]
    /\ opened_movie_set' = [opened_movie_set EXCEPT ![i] = {}]
    /\ out' = [out EXCEPT ![i] = << >>]
    /\ pos' = [pos EXCEPT ![i] = 0]
    /\ result' = [result EXCEPT ![i] = "none"]
    /\ exit_code' = [exit_code EXCEPT ![i] = -1]
    /\ reported' = [reported EXCEPT ![i] = "none"]
    /\ events' = [events EXCEPT ![i] = << >>]
    /\ served' = [served EXCEPT ![i] = << >>]
    /\ launched' = [launched EXCEPT ![i] = << >>]
    /\ printed' = [printed EXCEPT ![i] = << >>]
    /\ loaded' = [loaded EXCEPT ![i] = {}]
    /\ saved' = [saved EXCEPT ![i] = {}]
    /\ UNCHANGED file

Step(i) ==
    \/ process_start(i)
    \/ retrieve_genre_and_convert_to_map(i)
    \/ process_genre_id(i)
    \/ retrieve_first_page(i)
    \/ retrieve_next_page(i)
    \/ retrieve_all_done(i)
    \/ process_filter(i)
    \/ load_opened_movie_set(i)
    \/ process_found_movies(i)
    \/ save_create(i)
    \/ save_write(i)
    \/ save_flush(i)
    \/ main(i)
    \/ NewRun(i)

\* One instance of the tool, run again and again.
Next == Step(1)

Spec == Init /\ [][Next]_vars

\* ------------------------------------------- save, then load: a round trip

\* The ids of the sets that are saved: the ends of the type and one between.
RoundTripIds == { 0, 100, MaxU32 }

\* What the file holds before the save: nothing, less, more, or no set.
RoundTripFiles ==
    InitialFiles \cup
    { [exists |-> TRUE,
       content |-> <<LBracket, 1, Comma, 2, Comma, 3, Comma, 4, RBracket>>] }

\* save_opened_movie_set is called with any set, on any file.
InitRoundTrip ==
    /\ file \in RoundTripFiles
    /\ pc = [i \in Inst |-> IF i = 1 THEN "save_create" ELSE "start"]
    /\ \E S \in SUBSET RoundTripIds :
          opened_movie_set = [i \in Inst |-> IF i = 1 THEN S ELSE {}]
    /\ InitRest

\* After a save that returned Ok, load_opened_movie_set is called on the
\* same path.
RoundTripReload(i) ==
    /\ pc[i] = "main"
    /\ result[i] = "Ok"
    /\ pc' = [pc EXCEPT ![i] = "load"]
    /\ UNCHANGED << file, events, endVars, genreVars, fetchVars, served, seenVars,
                    saveVars, runVars >>

NextRoundTrip ==
    \/ save_create(1)
    \/ save_write(1)
    \/ save_flush(1)
    \/ RoundTripReload(1)
    \/ load_opened_movie_set(1)

SpecRoundTrip == InitRoundTrip /\ [][NextRoundTrip]_vars

\* ------------------------------------------------ what the claims speak of

HasEvent(i, e) == \E k \in DOMAIN events[i] : events[i][k] = e

StageEvents(i, stage) == { k \in DOMAIN events[i] : events[i][k].stage = stage }

\* The place of a stage in the order.
StageRank ==
    [ stage \in { StageOrder[k] : k \in DOMAIN StageOrder } |->
        CHOOSE k \in DOMAIN StageOrder : StageOrder[k] = stage ]

Rank(stage) == StageRank[stage]

\* process_found_movies has returned in the current run.
Notified(i) == HasEvent(i, Ev("Notify", "ok"))

\* The positions of the log of process_found_movies where the browser
\* command was spawned for id m, and those where "URL was opened" was printed.
Spawns(i, m) == { k \in DOMAIN launched[i] :
                    launched[i][k].id = m /\ launched[i][k].did # "was_opened" }
WasOpened(i, m) == { k \in DOMAIN launched[i] :
                       launched[i][k].id = m /\ launched[i][k].did = "was_opened" }

RECURSIVE ConcatResults(_, _)
ConcatResults(pages, k) ==
    IF k > Len(pages) THEN << >>
    ELSE pages[k].results \o ConcatResults(pages, k + 1)

MovieIds == { 100, 101, 102 }

\* ------------------------------------------------------------------- C1

\* C1: when page 1 reports total_pages = N >= 1 and every request succeeds,
\* retrieve_all_upcoming_movies has requested exactly the pages 1..N, in
\* this order, and returns the pages' results concatenated in page order
\* with the dates of page 1.
C1_PaginationComplete ==
    (pc[1] = "filter" /\ total_pages[1] >= 1) =>
        /\ Len(served[1]) = total_pages[1]
        /\ \A k \in DOMAIN served[1] : served[1][k].page = k /\ served[1][k].ok
        /\ movies[1] = ConcatResults(served[1], 1)
        /\ min_date[1] = first_page_response[1].dates.minimum
        /\ max_date[1] = first_page_response[1].dates.maximum

\* The same for the values of N whose N + 1 fits the type.
C1_PaginationCompleteBelowMax ==
    (pc[1] = "filter" /\ total_pages[1] >= 1 /\ total_pages[1] < MaxU32) =>
        /\ Len(served[1]) = total_pages[1]
        /\ \A k \in DOMAIN served[1] : served[1][k].page = k /\ served[1][k].ok
        /\ movies[1] = ConcatResults(served[1], 1)
        /\ min_date[1] = first_page_response[1].dates.minimum
        /\ max_date[1] = first_page_response[1].dates.maximum

\* ------------------------------------------------------------------- C2

\* C2: in the second of two consecutive runs, for a movie id m that the
\* first run filtered, did not find in the persisted set and saved (it
\* ended with status 0), and that the second run filtered too: the first
\* run spawned the browser for m, the second run spawns nothing for m and
\* prints "URL was opened" for it, and m was already in the loaded set, so
\* that the set has the size it would have without m in the list.
C2_OpenedInFirstRunOnly ==
    \A m \in MovieIds :
        ( /\ run[1] >= 2
          /\ prev[1].status = 0
          /\ m \in prev[1].filtered
          /\ m \notin prev[1].loaded
          /\ Notified(1)
          /\ m \in Ids(animation_movies[1]) )
        => /\ m \in prev[1].spawned
           /\ Spawns(1, m) = {}
           /\ WasOpened(1, m) # {}
           /\ m \in loaded[1]
           /\ Cardinality(opened_movie_set[1])
                = Cardinality(loaded[1] \cup (Ids(animation_movies[1]) \ {m}))

\* A second run that ended with status 0 after a first run that opened
\* movie 100 and ended with status 0, with movie 100 filtered again.
C2_Witness ==
    /\ run[1] = 2
    /\ prev[1].status = 0
    /\ 100 \in prev[1].filtered
    /\ 100 \notin prev[1].loaded
    /\ 100 \in prev[1].spawned
    /\ pc[1] = "exit"
    /\ exit_code[1] = 0
    /\ 100 \in Ids(animation_movies[1])
    /\ WasOpened(1, 100) # {}

\* ------------------------------------------------------------------- C3

\* A stage up to and including LoadSeenSet has failed in the current run.
FailedUpToLoad(i) ==
    \E k \in DOMAIN events[i] :
        /\ events[i][k].what = "failed"
        /\ Rank(events[i][k].stage) <= Rank("LoadSeenSet")

\* C3: save_opened_movie_set is entered only after process_found_movies
\* has returned, the file is as the run found it as long as the run has not
\* created it, and a run in which a stage up to and including the load
\* failed attempts no save and leaves the file as it found it.
C3_SaveOnlyAfterNotify ==
    /\ \A k \in StageEvents(1, "SaveSeenSet") :
           \E j \in 1..(k - 1) : events[1][j] = Ev("Notify", "ok")
    /\ pc[1] \in {"save_create", "save_write"} => Notified(1)
    /\ ~HasEvent(1, Ev("SaveSeenSet", "create")) => file = file_at_start[1]
    /\ FailedUpToLoad(1) =>
           /\ StageEvents(1, "SaveSeenSet") = {}
           /\ saved[1] = {} /\ out[1] = << >>
           /\ file = file_at_start[1]

\* A run that saved after opening a movie, followed by a run that ended on
\* a failed load of the file the first one wrote.
C3_Witness ==
    /\ run[1] = 2
    /\ prev[1].status = 0
    /\ prev[1].spawned # {}
    /\ pc[1] = "exit"
    /\ HasEvent(1, Ev("LoadSeenSet", "failed"))
    /\ file.exists

\* ------------------------------------------------------------------- C4

\* C4: what a run does is done in the order of the stages; nothing follows
\* a failure; whatever a stage does comes after the success of every
\* earlier stage; a missing API key or home directory means no request at
\* all, an unresolved genre means no request for a page.
C4_StagesInOrder ==
    /\ \A a \in 1..(Len(events[1]) - 1) :
           Rank(events[1][a].stage) <= Rank(events[1][a + 1].stage)
    /\ \A a \in DOMAIN events[1] :
           events[1][a].what = "failed" => a = Len(events[1])
    /\ \A b \in DOMAIN events[1] :
           { StageOrder[r] : r \in 1..(Rank(events[1][b].stage) - 1) }
               \subseteq { events[1][a].stage :
                             a \in { c \in 1..(b - 1) : events[1][c].what = "ok" } }
    /\ result[1] \in {"APIKeyError", "HomeDirectoryError"} =>
           /\ ~HasEvent(1, Ev("LoadGenres", "request"))
           /\ ~HasEvent(1, Ev("FetchAllPages", "request"))
           /\ served[1] = << >>
    /\ result[1] = "GenreIdNotFoundError" =>
           /\ ~HasEvent(1, Ev("FetchAllPages", "request"))
           /\ served[1] = << >>
    /\ (\E a \in DOMAIN events[1] : events[1][a].what = "failed") =>
           pc[1] \in {"main", "exit"}

\* A run that ended because the genre table has no "Animation".
C4_Witness ==
    /\ pc[1] = "exit"
    /\ result[1] = "GenreIdNotFoundError"
    /\ HasEvent(1, Ev("LoadGenres", "ok"))
    /\ events[1][Len(events[1])] = Ev("ResolveTargetGenreId", "failed")

\* ------------------------------------------------------------------- C5

\* C5: a process that has ended ended with status 0 or 1, with 0 exactly
\* when the save completed, and every failure of a stage is an AppError
\* that process() returned to main, which rendered it and exited with 1.
C5_EveryFailureReachesMain ==
    pc[1] = "exit" =>
        /\ exit_code[1] \in {0, 1}
        /\ (exit_code[1] = 0) <=> HasEvent(1, Ev("SaveSeenSet", "ok"))
        /\ (\E a \in DOMAIN events[1] : events[1][a].what = "failed") =>
               /\ result[1] \notin {"none", "Ok"}
               /\ reported[1] = result[1]
               /\ exit_code[1] = 1

\* ------------------------------------------------------------------- C6

\* C6: a failed page request is the last request of the run (no later
\* page, no retry: the pages requested are 1, 2, .. up to the failed one),
\* the run ends there without a value from retrieve_all_upcoming_movies:
\* nothing is filtered, no browser is spawned, the file is neither read
\* nor written.
C6_FailedPageAborts ==
    \A k \in DOMAIN served[1] :
        ~served[1][k].ok =>
            /\ k = Len(served[1])
            /\ \A j \in DOMAIN served[1] : served[1][j].page = j
            /\ pc[1] = "exit"
            /\ exit_code[1] # 0
            /\ result[1] = "none"
            /\ animation_movies[1] = << >>
            /\ launched[1] = << >>
            /\ \A a \in DOMAIN events[1] :
                   Rank(events[1][a].stage) <= Rank("FetchAllPages")
            /\ events[1][Len(events[1])] = Ev("FetchAllPages", "failed")
            /\ file = file_at_start[1]

\* Page 2 failed after page 1 had delivered movies.
C6_Witness ==
    /\ Len(served[1]) = 2
    /\ served[1][1].ok
    /\ ~served[1][2].ok
    /\ movies[1] # << >>
    /\ pc[1] = "exit"

\* ------------------------------------------------------------------- C7

\* The token sequences that are the JSON of a set of unsigned integers:
\* '[' and ']' around numbers of the type with ',' between them.
IsSetEncoding(content) ==
    /\ Len(content) >= 2
    /\ content[1] = LBracket
    /\ content[Len(content)] = RBracket
    /\ Len(content) = 2 \/ Len(content) % 2 = 1
    /\ \A k \in 2..(Len(content) - 1) :
           IF k % 2 = 0 THEN content[k] >= 0 /\ content[k] <= MaxU32
           ELSE content[k] = Comma

\* The run found a file that is not the encoding of a set of ids.
CorruptAtStart(i) ==
    file_at_start[i].exists /\ ~IsSetEncoding(file_at_start[i].content)

\* C7: when the run finds a file whose content is not an encoding of a set
\* of unsigned integers, load_opened_movie_set does not return a set (its
\* only outcomes are the two errors), no browser is spawned, the file is
\* not touched and the process does not end with status 0.
C7_CorruptFileIsAnError ==
    CorruptAtStart(1) =>
        /\ ~HasEvent(1, Ev("LoadSeenSet", "ok"))
        /\ pc[1] \notin {"notify", "save_create", "save_write"}
        /\ HasEvent(1, Ev("LoadSeenSet", "read")) =>
               /\ result[1] = "SerdeJsonDeserializeError"
               /\ events[1][Len(events[1])] = Ev("LoadSeenSet", "failed")
        /\ launched[1] = << >>
        /\ StageEvents(1, "Notify") = {}
        /\ StageEvents(1, "SaveSeenSet") = {}
        /\ file = file_at_start[1]
        /\ exit_code[1] # 0
        /\ pc[1] = "exit" => exit_code[1] \in {1, PanicStatus}

\* The run read an empty file, with animation movies to show, and ended
\* with status 1.
C7_Witness ==
    /\ file_at_start[1] = [exists |-> TRUE, content |-> << >>]
    /\ HasEvent(1, Ev("LoadSeenSet", "read"))
    /\ animation_movies[1] # << >>
    /\ pc[1] = "exit"
    /\ exit_code[1] = 1
    /\ reported[1] = "SerdeJsonDeserializeError"

\* ------------------------------------------------------------------- C8

\* C8: from the moment save_opened_movie_set has opened the file, the
\* file decodes, to the set that was loaded or to the set being saved.
C8_SaveIsAtomic ==
    HasEvent(1, Ev("SaveSeenSet", "create")) =>
        /\ file.exists
        /\ from_reader(file.content).ok
        /\ from_reader(file.content).set \in {loaded[1], saved[1]}

\* ------------------------------------------------------------------- C9

\* C9: a load that follows a save that returned Ok decodes the file, and
\* returns the set that was saved, whatever the set and whatever the file
\* held before.
C9_RoundTrip ==
    HasEvent(1, Ev("SaveSeenSet", "ok")) =>
        /\ from_reader(file.content) = [ok |-> TRUE, set |-> saved[1]]
        /\ HasEvent(1, Ev("LoadSeenSet", "read")) =>
               /\ pc[1] = "notify"
               /\ loaded[1] = saved[1]
               /\ opened_movie_set[1] = saved[1]

\* The set {0, u32::MAX} was saved over a file that held four ids, and
\* loaded again.
C9_Witness ==
    /\ pc[1] = "notify"
    /\ Len(file_at_start[1].content) = 9
    /\ saved[1] = {0, MaxU32}
    /\ loaded[1] = {0, MaxU32}

\* ------------------------------------------------------------------ C10

\* C10: in a run that finds no file, load_opened_movie_set reads nothing,
\* does not fail and returns the empty set; process_found_movies spawns the
\* browser once for each distinct id of the filtered list and for no other
\* id; and when the run returns Ok the file exists and holds exactly the
\* filtered ids.
C10_MissingFileIsEmptySet ==
    ~file_at_start[1].exists =>
        /\ ~HasEvent(1, Ev("LoadSeenSet", "failed"))
        /\ ~HasEvent(1, Ev("LoadSeenSet", "read"))
        /\ HasEvent(1, Ev("LoadSeenSet", "ok")) => loaded[1] = {}
        /\ Notified(1) =>
               \A m \in MovieIds :
                   /\ (m \in Ids(animation_movies[1])) <=> (Spawns(1, m) # {})
                   /\ Cardinality(Spawns(1, m)) <= 1
        /\ result[1] = "Ok" =>
               /\ file.exists
               /\ from_reader(file.content)
                    = [ok |-> TRUE, set |-> Ids(animation_movies[1])]

\* A first run without a file that showed movie 100 twice (it is on both
\* pages), spawned the browser once, and ended with status 0.
C10_Witness ==
    /\ run[1] = 1
    /\ ~file_at_start[1].exists
    /\ exit_code[1] = 0
    /\ animation_movies[1] = << M100, M100 >>
    /\ Cardinality(Spawns(1, 100)) = 1
    /\ file.content = << LBracket, 100, RBracket >>

\* ----------------------------------------------------- the filter on its own

\* The movies and the genre ids the filter is called with: an id in the
\* first place of genre_ids, in the last, twice, in none, and genre ids no
\* movie names.
FilterMovies == { M100, M101, M102, M103, M104 }
FilterGenreIds == { 0, 1, 2, 3 }

FilterInputs ==
    UNION { [1..n -> FilterMovies] : n \in 0..MaxMovies }

\* process is about to filter any list of movies by any genre id.
InitFilter ==
    /\ file \in { NoFile }
    /\ pc = [i \in Inst |-> IF i = 1 THEN "filter" ELSE "start"]
    /\ opened_movie_set = [i \in Inst |-> {}]
    /\ run = [i \in Inst |-> 1]
    /\ genre_id_to_name = [i \in Inst |-> << >>]
    /\ \E g \in FilterGenreIds :
          genre_animation_id = [i \in Inst |-> IF i = 1 THEN g ELSE 0]
    /\ \E ms \in FilterInputs :
          movies = [i \in Inst |-> IF i = 1 THEN ms ELSE << >>]
    /\ first_page_response = [i \in Inst |-> NoResponse]
    /\ total_pages = [i \in Inst |-> 0]
    /\ upper = [i \in Inst |-> 0]
    /\ later_larger = [i \in Inst |-> FALSE]
    /\ p = [i \in Inst |-> 0]
    /\ min_date = [i \in Inst |-> ""]
    /\ max_date = [i \in Inst |-> ""]
    /\ animation_movies = [i \in Inst |-> << >>]
    /\ out = [i \in Inst |-> << >>]
    /\ pos = [i \in Inst |-> 0]
    /\ result = [i \in Inst |-> "none"]
    /\ exit_code = [i \in Inst |-> -1]
    /\ reported = [i \in Inst |-> "none"]
    /\ events = [i \in Inst |-> << >>]
    /\ served = [i \in Inst |-> << >>]
    /\ launched = [i \in Inst |-> << >>]
    /\ printed = [i \in Inst |-> << >>]
    /\ loaded = [i \in Inst |-> {}]
    /\ saved = [i \in Inst |-> {}]
    /\ file_at_start = [i \in Inst |-> file]
    /\ prev = [i \in Inst |-> NoRun]

NextFilter == process_filter(1)

SpecFilter == InitFilter /\ [][NextFilter]_vars

\* The positions of a list whose movie names genre id g.
KeptPositions(g, ms) ==
    { k \in DOMAIN ms : g \in { ms[k].genre_ids[j] : j \in DOMAIN ms[k].genre_ids } }

\* ------------------------------------------------------------------- C11

\* C11: for every genre id g and every list of movies, the result of
\* get_upcoming_movies_by_genre_id is the subsequence of the movies that
\* name g anywhere in genre_ids: as many elements as there are such
\* positions, and the movie of the n-th such position in the n-th place, so
\* the order is kept and a movie that names g twice is there once.
C11_FilterIsSubsequence ==
    [][ (pc[1] = "filter" /\ pc'[1] = "load") =>
          LET g == genre_animation_id[1]
              kept == KeptPositions(g, movies[1])
              res == animation_movies'[1]
          IN  /\ Len(res) = Cardinality(kept)
              /\ \A k \in kept :
                    res[Cardinality({ j \in kept : j <= k })] = movies[1][k] ]_vars

\* The filter has kept, in their order, a movie that names the genre twice
\* and one that names it last, and has dropped the others.
C11_Witness ==
    /\ pc[1] = "load"
    /\ genre_animation_id[1] = 2
    /\ animation_movies[1] = << M103, M100 >>

\* ------------------------------------------------------------------- C12

\* The names of the ids that have an entry in the map, in the order of the
\* ids, with one separator between two names and none elsewhere.
JoinedNames(ids, genre_map) ==
    LET known == SelectSeq(ids, LAMBDA g : g \in DOMAIN genre_map)
        n == Len(known)
    IN  [ k \in 1..(IF n = 0 THEN 0 ELSE 2 * n - 1) |->
            IF k % 2 = 1 THEN genre_map[known[(k + 1) \div 2]] ELSE Separator ]

\* C12: the string get_genre_name_from_ids returns for a movie is the names
\* of the genre ids that have an entry in the map, in the order of the ids,
\* joined with ", "; an id without an entry contributes nothing, so the
\* string never begins or ends with the separator and never holds two
\* separators in a row.
C12_NamesJoined ==
    Notified(1) =>
        \A k \in DOMAIN printed[1] :
            printed[1][k] = JoinedNames(animation_movies[1][k].genre_ids,
                                        genre_id_to_name[1])

\* ------------------------------------------------------------------- C13

\* C13: within a run the in-memory seen-set only grows. From the load on,
\* no step takes an id out of the set, so the ids that were loaded stay in
\* it; the only step that changes the set is process_found_movies, and what
\* it adds are the ids it took the launch branch for, none of which was in
\* the set; the set handed to save_opened_movie_set is the set as it is
\* then, with every loaded id in it.
C13_SeenSetOnlyGrows ==
    [][ run'[1] = run[1] =>
          /\ pc[1] # "load" =>
                /\ opened_movie_set[1] \subseteq opened_movie_set'[1]
                /\ loaded[1] \subseteq opened_movie_set'[1]
                /\ opened_movie_set'[1] # opened_movie_set[1] =>
                      /\ pc[1] = "notify"
                      /\ opened_movie_set'[1] \ opened_movie_set[1] =
                            { m \in MovieIds : Spawns(1, m)' # {} }
          /\ pc[1] = "save_create" =>
                /\ saved'[1] = opened_movie_set[1]
                /\ loaded[1] \subseteq saved'[1] ]_vars

\* A set was loaded, has grown in process_found_movies and was handed to
\* save with the loaded id and the new one.
C13_Witness ==
    /\ pc[1] = "save_write"
    /\ loaded[1] = {100}
    /\ opened_movie_set[1] = {100, 102}
    /\ saved[1] = {100, 102}

\* ------------------------------------------------------------------- C14

\* C14: whenever the request for a page p fails, in the transport or in the
\* decoding of the body, the error retrieve_upcoming_movies_by_page returns
\* is a RestClientError that carries p.
C14_ErrorNamesThePage ==
    \A k \in DOMAIN served[1] :
        ~served[1][k].ok =>
            /\ served[1][k].error.kind = "RestClientError"
            /\ served[1][k].error.args = << served[1][k].page >>

\* ------------------------------------------------------------------- C15

\* The positions of the filtered list that hold the movie id m.
Occurrences(i, m) ==
    { k \in DOMAIN animation_movies[i] : animation_movies[i][k].id = m }

\* C15: within one run process_found_movies handles the movies of the
\* filtered list one by one, and for every movie id m: when m was in the
\* loaded set the viewer is never launched for it; when it was not, the
\* viewer is launched for it exactly once, at the first place the id has
\* in the list, and every later place of the id takes the "URL was opened"
\* branch. So a list that holds an id twice launches once.
C15_LaunchedOncePerNewId ==
    Notified(1) =>
        /\ Len(launched[1]) = Len(animation_movies[1])
        /\ \A k \in DOMAIN launched[1] : launched[1][k].id = animation_movies[1][k].id
        /\ \A m \in MovieIds :
              LET occ == Occurrences(1, m)
              IN  IF m \in loaded[1] \/ occ = {}
                  THEN Spawns(1, m) = {}
                  ELSE /\ Spawns(1, m) = { k \in occ : \A j \in occ : k <= j }
                       /\ WasOpened(1, m) = occ \ Spawns(1, m)
                       /\ Cardinality(Spawns(1, m)) = 1

\* A list that holds a new id twice, with another id loaded: one launch, at
\* the first place.
C15_Witness ==
    /\ pc[1] = "save_create"
    /\ loaded[1] = {100}
    /\ animation_movies[1] = << M102, M102 >>
    /\ launched[1] = << [id |-> 102, did |-> "spawned"],
                        [id |-> 102, did |-> "was_opened"] >>

\* ------------------------------------------------------------------- C16

\* C16: for every total_pages that page 1 reports, the loop of
\* retrieve_all_upcoming_movies requests the pages 2..total_pages and no
\* other: none for 0 and for 1, and for the largest value of the type the
\* bound total_pages + 1 neither wraps into an empty range nor ends the
\* process: a fetch ends in a panic only by a request that failed.
C16_LoopRange ==
    /\ pc[1] = "filter" =>
          /\ Len(served[1]) = (IF total_pages[1] <= 1 THEN 1 ELSE total_pages[1])
          /\ \A k \in DOMAIN served[1] : served[1][k].page = k
    /\ (pc[1] = "exit" /\ exit_code[1] = PanicStatus /\ served[1] # << >>) =>
          ~served[1][Len(served[1])].ok

\* The same for the values of total_pages below the largest.
C16_LoopRangeBelowMax ==
    /\ (pc[1] = "filter" /\ total_pages[1] < MaxU32) =>
          /\ Len(served[1]) = (IF total_pages[1] <= 1 THEN 1 ELSE total_pages[1])
          /\ \A k \in DOMAIN served[1] : served[1][k].page = k
    /\ (pc[1] = "exit" /\ exit_code[1] = PanicStatus /\ served[1] # << >>
          /\ served[1][Len(served[1])].ok) =>
          Len(served[1]) = 1

\* ------------------------------------------------------------------- C17

\* The spawn of the browser command for id m failed in the current run.
FailedLaunch(i, m) ==
    \E k \in DOMAIN launched[i] :
        launched[i][k] = [id |-> m, did |-> "spawn_failed"]

\* C17: a launch that fails changes nothing. Whatever spawns fail,
\* process_found_movies handles every movie of the list in order, leaves
\* the set with every id of the list added to it, returns to process, which
\* goes on to save, and it sets no result and no exit status; a run that
\* ends with status 0 has saved and persisted the ids whose launch failed;
\* and the next run does not launch for an id whose launch failed in the
\* run before.
C17_FailedLaunchChangesNothing ==
    /\ [][ (pc[1] = "notify" /\ run'[1] = run[1]) =>
             /\ pc'[1] = "save_create"
             /\ opened_movie_set'[1] = opened_movie_set[1] \cup Ids(animation_movies[1])
             /\ Len(launched'[1]) = Len(animation_movies[1])
             /\ \A k \in DOMAIN launched'[1] :
                   launched'[1][k].id = animation_movies[1][k].id
             /\ result'[1] = result[1]
             /\ exit_code'[1] = exit_code[1] ]_vars
    /\ [](\A m \in MovieIds :
             /\ (exit_code[1] = 0 /\ FailedLaunch(1, m)) =>
                   /\ m \in saved[1]
                   /\ from_reader(file.content).ok
                   /\ m \in from_reader(file.content).set
             /\ (prev[1].status = 0 /\ m \in prev[1].failed /\ Notified(1)) =>
                   Spawns(1, m) = {})

\* A run ended with status 0 after the launch for movie 100 failed, and the
\* next run found the movie again and printed "URL was opened" for it.
C17_Witness ==
    /\ run[1] = 2
    /\ prev[1].status = 0
    /\ prev[1].failed = {100}
    /\ Notified(1)
    /\ WasOpened(1, 100) # {}
    /\ exit_code[1] = 0

\* --------------------------------------- two instances on the same file

\* The history of a run that has loaded the seen-set and is about to call
\* process_found_movies.
LoadedPrefix(read) ==
    << Ev("Init", "ok"), Ev("LoadGenres", "request"), Ev("LoadGenres", "ok"),
       Ev("ResolveTargetGenreId", "ok"), Ev("FetchAllPages", "request"),
       Ev("FetchAllPages", "ok"), Ev("Filter", "ok") >>
    \o (IF read THEN << Ev("LoadSeenSet", "read") >> ELSE << >>)
    \o << Ev("LoadSeenSet", "ok") >>

\* The filtered lists of the two instances.
ConcLists == { << >>, << M100 >>, << M102 >>, << M102, M100 >> }

\* The files both instances could load from.
ConcFiles == { f \in InitialFiles : ~f.exists \/ from_reader(f.content).ok }

\* Both instances have loaded the file, neither has saved: the file is the
\* one both loaded, since only a save writes it.
InitConc ==
    /\ file \in ConcFiles
    /\ pc = [i \in Inst |-> "notify"]
    /\ opened_movie_set = [i \in Inst |-> from_reader(file.content).set]
    /\ run = [i \in Inst |-> 1]
    /\ genre_id_to_name = [i \in Inst |-> GenreMap(
            << [id |-> 1, name |-> "Action"], [id |-> 2, name |-> "Animation"] >>)]
    /\ genre_animation_id = [i \in Inst |-> 2]
    /\ first_page_response = [i \in Inst |-> NoResponse]
    /\ total_pages = [i \in Inst |-> 0]
    /\ upper = [i \in Inst |-> 0]
    /\ later_larger = [i \in Inst |-> FALSE]
    /\ p = [i \in Inst |-> 0]
    /\ movies = [i \in Inst |-> << >>]
    /\ min_date = [i \in Inst |-> ""]
    /\ max_date = [i \in Inst |-> ""]
    /\ animation_movies \in [Inst -> ConcLists]
    /\ out = [i \in Inst |-> << >>]
    /\ pos = [i \in Inst |-> 0]
    /\ result = [i \in Inst |-> "none"]
    /\ exit_code = [i \in Inst |-> -1]
    /\ reported = [i \in Inst |-> "none"]
    /\ events = [i \in Inst |-> LoadedPrefix(file.exists)]
    /\ served = [i \in Inst |-> << >>]
    /\ launched = [i \in Inst |-> << >>]
    /\ printed = [i \in Inst |-> << >>]
    /\ loaded = [i \in Inst |-> from_reader(file.content).set]
    /\ saved = [i \in Inst |-> {}]
    /\ file_at_start = [i \in Inst |-> file]
    /\ prev = [i \in Inst |-> NoRun]

\* The two processes take their steps in any order.
NextConc ==
    \E i \in Inst :
        \/ process_found_movies(i)
        \/ save_create(i)
        \/ save_write(i)
        \/ save_flush(i)
        \/ main(i)

SpecConc == InitConc /\ [][NextConc]_vars

\* ------------------------------------------------------------------- C18

\* C18: two instances have loaded the same file before either saves. When
\* the saves of both have returned Ok, the file holds the set of the
\* instance that saved last, as it had it in memory: the last writer wins.
\* Whichever of the two saved last, the file then decodes to the set one of
\* them handed to save_opened_movie_set.
C18_LastWriterWins ==
    (result[1] = "Ok" /\ result[2] = "Ok") =>
        \E i \in Inst :
            /\ from_reader(file.content).ok
            /\ from_reader(file.content).set = saved[i]

\* ------------------------------------------------------------------- C19

\* Every call the run makes returns, so a step that can be taken is taken.
SpecLive == Spec /\ WF_vars(Next)

\* The most page requests a fetch makes for the total_pages of page 1.
RequestBound(n) == IF n <= 1 THEN 1 ELSE n

\* C19: every run ends, by running to the end or by the first failure: a
\* run begins only when the run before it has ended, and the last run
\* reaches its end; the number of page requests never exceeds what the
\* total_pages of page 1 allows; and a page after page 1 leaves the loop's
\* bound alone and moves the loop one page on, whatever total_pages it
\* reports.
C19_Terminates ==
    /\ <>(pc[1] = "exit" /\ run[1] = MaxRuns)
    /\ [][ run'[1] # run[1] => (pc[1] = "exit" /\ run'[1] = run[1] + 1) ]_vars
    /\ [](pc[1] = "pages" => Len(served[1]) <= RequestBound(total_pages[1]))
    /\ [][ (pc[1] = "pages" /\ pc'[1] = "pages") =>
             /\ upper'[1] = upper[1]
             /\ total_pages'[1] = total_pages[1]
             /\ p'[1] = p[1] + 1
             /\ Len(served'[1]) = Len(served[1]) + 1 ]_vars

\* A fetch came to its end after two requests, though page 2 reported more
\* pages than page 1 had.
C19_Witness ==
    /\ pc[1] = "filter"
    /\ total_pages[1] = 2
    /\ later_larger[1]
    /\ Len(served[1]) = 2

\* ------------------------------------------------------------------- C20

\* C20: after a run that ended with status 0 the file decodes to the set
\* that was loaded united with the ids of the filtered list, no more and no
\* less, and the ids the viewer was launched for in the run are the ids of
\* the filtered list that were not in the loaded set.
C20_RunSummary ==
    exit_code[1] = 0 =>
        /\ from_reader(file.content).ok
        /\ from_reader(file.content).set = loaded[1] \cup Ids(animation_movies[1])
        /\ { m \in MovieIds : Spawns(1, m) # {} } = Ids(animation_movies[1]) \ loaded[1]

\* A run ended with status 0 that had loaded one id, found it again and
\* found a new one.
C20_Witness ==
    /\ exit_code[1] = 0
    /\ loaded[1] = {100}
    /\ Ids(animation_movies[1]) = {100, 102}
    /\ from_reader(file.content).set = {100, 102}

====
